---- MODULE Spec2Model ----
(***************************************************************************)
(* Model of processors/minsev/minsev.go: LogProcessor, a log.Processor     *)
(* that wraps a downstream log.Processor and drops records whose severity  *)
(* is below the minimum reported by a Severitier.                          *)
(*                                                                         *)
(* A gate call is one action.  The handler is an operator that returns an  *)
(* outcome: whether it panicked, the value it returned, the calls it made  *)
(* on the downstream processor (receiver, method, arguments, the value the *)
(* downstream returned) and the values it read from the Severitier.        *)
(***************************************************************************)
EXTENDS Integers, Sequences, FiniteSets

\* ---------------------------------------------------------------- bounds

\* Severities of records, queries and providers range over
\* SeverityInfo - SevSpan .. SeverityInfo + SevSpan.
SevSpan == 1

\* ------------------------------------------------------ values and inputs

\* log.SeverityInfo, the value minsev.SeverityInfo.Severity() reports.
SeverityInfo == 9

Severities == (SeverityInfo - SevSpan)..(SeverityInfo + SevSpan)

\* The nil interface value, and the nil error.
Nil == "nil"

\* var defaultProcessor = noopProcessor{}
defaultProcessor == "noop"

\* Downstream processors a caller can supply: one that implements only
\* log.Processor and one that also implements log.FilterProcessor.
PlainProcessor == "plain"
FilteringProcessor == "filtering"
DownstreamArgs == {Nil, PlainProcessor, FilteringProcessor}

\* Severitier values a caller can supply: nil, a constant minsev.Severity,
\* or a *SeverityVar whose value can be changed at any time.
NilSev == [kind |-> "nil", val |-> 0]
VarSev == [kind |-> "var", val |-> 0]
ConstSev(v) == [kind |-> "const", val |-> v]
SeverityArgs == {NilSev, VarSev} \cup {ConstSev(v) : v \in Severities}

Contexts == {"ctxA", "ctxB"}
Records == [body : {"r1", "r2"}, sev : Severities]
EnabledParams == [name : {"e1", "e2"}, sev : Severities]
\* What a caller-supplied downstream may return from OnEmit, Shutdown and
\* ForceFlush.
Errors == {Nil, "errA"}
NoArg == [body |-> "none", sev |-> 0]

VARIABLES
    pc,        \* "start" before the gate exists, "ready" after
    args,      \* how the gate was built and from which arguments
    p,         \* the LogProcessor: Processor, filter, sev
    varValue,  \* the value held by the SeverityVar
    last,      \* the last call on the gate and its outcome
    prev       \* the call before it, abridged

vars == <<pc, args, p, varValue, last, prev>>

\* ------------------------------------------------------------ providers

\* Severitier.Severity(), for the non-nil providers: a constant reports
\* itself, a SeverityVar its current value.
Severity(s) == IF s.kind = "const" THEN s.val ELSE varValue

\* ------------------------------------------------------------ downstream

\* Faulty variant: the no-op processor has no Enabled method.
ImplementsFilterUserOnly(d) == d = FilteringProcessor

\* downstream.(log.FilterProcessor): the type assertion of NewLogProcessor.
\* noopProcessor has an Enabled method, so it satisfies the interface.
ImplementsFilter(d) == d \in {FilteringProcessor, defaultProcessor}

noopOnEmit(ctx, record) == Nil
noopEnabled(ctx, param) == FALSE
noopShutdown(ctx) == Nil
noopForceFlush(ctx) == Nil

\* One call on a downstream processor, as the gate's outcome records it.
DsCall(recv, op, ctx, arg, ret) ==
    [recv |-> recv, op |-> op, ctx |-> ctx, arg |-> arg, ret |-> ret]

Outcome(panic, ret, calls, reads) ==
    [panic |-> panic, ret |-> ret, calls |-> calls, reads |-> reads]

\* A method call on a nil interface value: the handler does not return.
\* zero stands in the outcome for the value never returned.
Panicked(zero, reads) == Outcome(TRUE, zero, <<>>, reads)

\* Dynamic dispatch of p.Processor.OnEmit: the no-op processor returns nil,
\* a caller-supplied processor returns whatever it chooses (dsRet).
ProcessorOnEmit(d, ctx, record, dsRet) ==
    IF d = defaultProcessor THEN noopOnEmit(ctx, record) ELSE dsRet

\* Dynamic dispatch of p.filter.Enabled.
FilterEnabled(f, ctx, param, dsEnabled) ==
    IF f = defaultProcessor THEN noopEnabled(ctx, param) ELSE dsEnabled

ProcessorShutdown(d, ctx, dsRet) ==
    IF d = defaultProcessor THEN noopShutdown(ctx) ELSE dsRet

ProcessorForceFlush(d, ctx, dsRet) ==
    IF d = defaultProcessor THEN noopForceFlush(ctx) ELSE dsRet

\* ----------------------------------------------------------- construction

\* Faulty variant: the filter capability of the downstream is never captured.
NewLogProcessorNoFilter(downstream, severity) ==
    LET d == IF downstream = Nil THEN defaultProcessor ELSE downstream
        s == IF severity = NilSev THEN ConstSev(SeverityInfo) ELSE severity
    IN  [Processor |-> d, filter |-> Nil, sev |-> s]

\* Faulty variant: a nil severity is kept instead of being replaced by SeverityInfo.
NewLogProcessorNoSevDefault(downstream, severity) ==
    LET d == IF downstream = Nil THEN defaultProcessor ELSE downstream
    IN  [Processor |-> d,
         filter    |-> IF ImplementsFilter(d) THEN d ELSE Nil,
         sev       |-> severity]

\* func NewLogProcessor(downstream log.Processor, severity Severitier)
NewLogProcessor(downstream, severity) ==
    LET d == IF downstream = Nil THEN defaultProcessor ELSE downstream
        s == IF severity = NilSev THEN ConstSev(SeverityInfo) ELSE severity
    IN  [Processor |-> d,
         filter    |-> IF ImplementsFilter(d) THEN d ELSE Nil,
         sev       |-> s]

\* Faulty variant: the minimum is a plain severity value, whose zero value is a
\* usable provider, instead of an interface whose zero value is nil.
LogProcessorLiteralValueSev(downstream) ==
    [Processor |-> downstream, filter |-> Nil, sev |-> ConstSev(0)]

\* A LogProcessor built without NewLogProcessor.  Code outside the package
\* can set only the exported embedded field Processor: filter and sev are
\* unexported and keep their zero value, nil.
LogProcessorLiteral(downstream) ==
    [Processor |-> downstream, filter |-> Nil, sev |-> NilSev]

\* ---------------------------------------------------------------- handlers

\* Faulty variant: the downstream's error is discarded.
OnEmitDropsError(ctx, record, dsRet) ==
    IF p.sev = NilSev THEN Panicked(Nil, <<>>)
    ELSE LET min == Severity(p.sev) IN
         IF record.sev >= min
         THEN IF p.Processor = Nil THEN Panicked(Nil, <<min>>)
              ELSE LET r == ProcessorOnEmit(p.Processor, ctx, record, dsRet)
                   IN  Outcome(FALSE, Nil,
                               <<DsCall(p.Processor, "OnEmit", ctx, record, r)>>,
                               <<min>>)
         ELSE Outcome(FALSE, Nil, <<>>, <<min>>)

\* Faulty variant: the severity comparison's result is not used.
OnEmitNoGate(ctx, record, dsRet) ==
    IF p.sev = NilSev THEN Panicked(Nil, <<>>)
    ELSE LET min == Severity(p.sev) IN
         IF p.Processor = Nil THEN Panicked(Nil, <<min>>)
         ELSE LET r == ProcessorOnEmit(p.Processor, ctx, record, dsRet)
              IN  Outcome(FALSE, r,
                          <<DsCall(p.Processor, "OnEmit", ctx, record, r)>>,
                          <<min>>)

\* Faulty variant: the minimum is read once and kept: a later call decides by the
\* value an earlier call read.
OnEmitCached(ctx, record, dsRet) ==
    IF p.sev = NilSev THEN Panicked(Nil, <<>>)
    ELSE LET min == IF last.out.reads # <<>> THEN last.out.reads[1]
                    ELSE Severity(p.sev)
         IN
         IF record.sev >= min
         THEN IF p.Processor = Nil THEN Panicked(Nil, <<min>>)
              ELSE LET r == ProcessorOnEmit(p.Processor, ctx, record, dsRet)
                   IN  Outcome(FALSE, r,
                               <<DsCall(p.Processor, "OnEmit", ctx, record, r)>>,
                               <<min>>)
         ELSE Outcome(FALSE, Nil, <<>>, <<min>>)

\* Faulty variant: > in place of >=.
OnEmitStrict(ctx, record, dsRet) ==
    IF p.sev = NilSev THEN Panicked(Nil, <<>>)
    ELSE LET min == Severity(p.sev) IN
         IF record.sev > min
         THEN IF p.Processor = Nil THEN Panicked(Nil, <<min>>)
              ELSE LET r == ProcessorOnEmit(p.Processor, ctx, record, dsRet)
                   IN  Outcome(FALSE, r,
                               <<DsCall(p.Processor, "OnEmit", ctx, record, r)>>,
                               <<min>>)
         ELSE Outcome(FALSE, Nil, <<>>, <<min>>)

\* func (p *LogProcessor) OnEmit(ctx, record) error
\*     if record.Severity() >= p.sev.Severity() {
\*         return p.Processor.OnEmit(ctx, record)
\*     }
\*     return nil
\* Both operands of >= are evaluated before the comparison, so a nil p.sev
\* panics whatever the record's severity.
OnEmit(ctx, record, dsRet) ==
    IF p.sev = NilSev THEN Panicked(Nil, <<>>)
    ELSE LET min == Severity(p.sev) IN
         IF record.sev >= min
         THEN IF p.Processor = Nil THEN Panicked(Nil, <<min>>)
              ELSE LET r == ProcessorOnEmit(p.Processor, ctx, record, dsRet)
                   IN  Outcome(FALSE, r,
                               <<DsCall(p.Processor, "OnEmit", ctx, record, r)>>,
                               <<min>>)
         ELSE Outcome(FALSE, Nil, <<>>, <<min>>)

\* Faulty variant: the operands of && are swapped, so the filter is asked first.
EnabledFilterFirst(ctx, param, dsEnabled) ==
    IF p.filter # Nil
    THEN LET r == FilterEnabled(p.filter, ctx, param, dsEnabled)
             c == <<DsCall(p.filter, "Enabled", ctx, param, r)>>
         IN  IF ~r THEN Outcome(FALSE, FALSE, c, <<>>)
             ELSE IF p.sev = NilSev THEN Panicked(FALSE, <<>>)
             ELSE Outcome(FALSE, param.sev >= Severity(p.sev), c,
                          <<Severity(p.sev)>>)
    ELSE IF p.sev = NilSev THEN Panicked(FALSE, <<>>)
         ELSE Outcome(FALSE, param.sev >= Severity(p.sev), <<>>,
                      <<Severity(p.sev)>>)

\* func (p *LogProcessor) Enabled(ctx, param) bool
\*     sev := param.Severity
\*     if p.filter != nil {
\*         return sev >= p.sev.Severity() && p.filter.Enabled(ctx, param)
\*     }
\*     return sev >= p.sev.Severity()
Enabled(ctx, param, dsEnabled) ==
    IF p.filter # Nil
    THEN IF p.sev = NilSev THEN Panicked(FALSE, <<>>)
         ELSE LET min == Severity(p.sev) IN
              IF param.sev >= min
              THEN LET r == FilterEnabled(p.filter, ctx, param, dsEnabled)
                   IN  Outcome(FALSE, r,
                               <<DsCall(p.filter, "Enabled", ctx, param, r)>>,
                               <<min>>)
              ELSE Outcome(FALSE, FALSE, <<>>, <<min>>)
    ELSE IF p.sev = NilSev THEN Panicked(FALSE, <<>>)
         ELSE LET min == Severity(p.sev)
              IN  Outcome(FALSE, param.sev >= min, <<>>, <<min>>)

\* Shutdown is promoted from the embedded log.Processor: p.Processor.Shutdown.
Shutdown(ctx, dsRet) ==
    IF p.Processor = Nil THEN Panicked(Nil, <<>>)
    ELSE LET r == ProcessorShutdown(p.Processor, ctx, dsRet)
         IN  Outcome(FALSE, r,
                     <<DsCall(p.Processor, "Shutdown", ctx, NoArg, r)>>, <<>>)

\* Faulty variant: ForceFlush reaches the downstream's Shutdown.
ForceFlushAsShutdown(ctx, dsRet) ==
    IF p.Processor = Nil THEN Panicked(Nil, <<>>)
    ELSE LET r == ProcessorShutdown(p.Processor, ctx, dsRet)
         IN  Outcome(FALSE, r,
                     <<DsCall(p.Processor, "Shutdown", ctx, NoArg, r)>>, <<>>)

\* ForceFlush is promoted from the embedded log.Processor.
ForceFlush(ctx, dsRet) ==
    IF p.Processor = Nil THEN Panicked(Nil, <<>>)
    ELSE LET r == ProcessorForceFlush(p.Processor, ctx, dsRet)
         IN  Outcome(FALSE, r,
                     <<DsCall(p.Processor, "ForceFlush", ctx, NoArg, r)>>, <<>>)

\* ------------------------------------------------------------ observation

\* The minimum the gate's provider reports now (0 when the gate has none).
CurrentMinimum ==
    IF p.sev = NilSev THEN 0
    ELSE IF p.sev.kind = "const" THEN p.sev.val ELSE varValue

Call(op, ctx, arg, out) ==
    [op |-> op, ctx |-> ctx, arg |-> arg, min |-> CurrentMinimum, out |-> out]

NoCall == [op |-> "none", ctx |-> "none", arg |-> NoArg, min |-> 0,
           out |-> Outcome(FALSE, Nil, <<>>, <<>>)]

\* The call reached the downstream's OnEmit.
Forwarded(c) ==
    /\ c.op = "OnEmit"
    /\ \E i \in 1..Len(c.out.calls) : c.out.calls[i].op = "OnEmit"

\* The call let the record or the query through.
Passed(c) ==
    \/ Forwarded(c)
    \/ c.op = "Enabled" /\ ~c.out.panic /\ c.out.ret

Abridge(c) == [op |-> c.op, sev |-> c.arg.sev, pass |-> Passed(c)]

\* The downstream the gate was asked to wrap, nil replaced by the no-op.
Downstream ==
    IF args.downstream = Nil THEN defaultProcessor ELSE args.downstream

\* ------------------------------------------------------------------ actions

Init ==
    /\ pc = "start"
    /\ args = [how |-> "none", downstream |-> Nil, severity |-> NilSev]
    /\ p = [Processor |-> Nil, filter |-> Nil, sev |-> NilSev]
    /\ varValue = SeverityInfo
    /\ last = NoCall
    /\ prev = Abridge(NoCall)

Construct ==
    /\ pc = "start"
    /\ \E d \in DownstreamArgs, s \in SeverityArgs :
          /\ p' = NewLogProcessor(d, s)
          /\ args' = [how |-> "new", downstream |-> d, severity |-> s]
    /\ pc' = "ready"
    /\ UNCHANGED <<varValue, last, prev>>

ConstructLiteral ==
    /\ pc = "start"
    /\ \E d \in DownstreamArgs :
          /\ p' = LogProcessorLiteral(d)
          /\ args' = [how |-> "literal", downstream |-> d, severity |-> NilSev]
    /\ pc' = "ready"
    /\ UNCHANGED <<varValue, last, prev>>

\* SeverityVar.Set, by whoever holds the variable.
SetSeverity ==
    /\ \E v \in Severities : varValue' = v
    /\ UNCHANGED <<pc, args, p, last, prev>>

CallOnEmit ==
    /\ pc = "ready"
    /\ \E ctx \in Contexts, record \in Records, dsRet \in Errors :
          last' = Call("OnEmit", ctx, record, OnEmit(ctx, record, dsRet))
    /\ prev' = Abridge(last)
    /\ UNCHANGED <<pc, args, p, varValue>>

CallEnabled ==
    /\ pc = "ready"
    /\ \E ctx \in Contexts, param \in EnabledParams, dsEnabled \in BOOLEAN :
          last' = Call("Enabled", ctx, param, Enabled(ctx, param, dsEnabled))
    /\ prev' = Abridge(last)
    /\ UNCHANGED <<pc, args, p, varValue>>

CallShutdown ==
    /\ pc = "ready"
    /\ \E ctx \in Contexts, dsRet \in Errors :
          last' = Call("Shutdown", ctx, NoArg, Shutdown(ctx, dsRet))
    /\ prev' = Abridge(last)
    /\ UNCHANGED <<pc, args, p, varValue>>

CallForceFlush ==
    /\ pc = "ready"
    /\ \E ctx \in Contexts, dsRet \in Errors :
          last' = Call("ForceFlush", ctx, NoArg, ForceFlush(ctx, dsRet))
    /\ prev' = Abridge(last)
    /\ UNCHANGED <<pc, args, p, varValue>>

Next ==
    \/ Construct
    \/ ConstructLiteral
    \/ SetSeverity
    \/ CallOnEmit
    \/ CallEnabled
    \/ CallShutdown
    \/ CallForceFlush

Spec == Init /\ [][Next]_vars

\* ------------------------------------------------------------------- claims

\* The gate was built by NewLogProcessor and the last call is op.
NewGateCall(op) == pc = "ready" /\ args.how = "new" /\ last.op = op

\* A step that calls method op on a gate built by NewLogProcessor.  Once the
\* gate exists every step is a call or a SeverityVar.Set, and a Set that
\* changes nothing is a stuttering step.
NewGateStep(op) ==
    /\ pc = "ready"
    /\ args.how = "new"
    /\ varValue' = varValue
    /\ last'.op = op

\* C1: a record whose severity is at or above the provider's minimum at the
\* time of the call is passed to the downstream's OnEmit exactly once, with
\* the context and the record OnEmit was given, and OnEmit returns what the
\* downstream returned.
C1_ForwardsAtOrAboveMinimum ==
    (NewGateCall("OnEmit") /\ last.arg.sev >= last.min) =>
        /\ ~last.out.panic
        /\ Len(last.out.calls) = 1
        /\ last.out.calls[1].recv = Downstream
        /\ last.out.calls[1].op = "OnEmit"
        /\ last.out.calls[1].ctx = last.ctx
        /\ last.out.calls[1].arg = last.arg
        /\ last.out.ret = last.out.calls[1].ret

\* A caller-supplied downstream returned an error for a record at the minimum.
C1_Witness ==
    /\ NewGateCall("OnEmit")
    /\ args.downstream = PlainProcessor
    /\ last.arg.sev = last.min
    /\ Len(last.out.calls) = 1
    /\ last.out.calls[1].ret = "errA"
    /\ last.out.ret = "errA"

\* C2: a record whose severity is below the provider's minimum at the time
\* of the call reaches no downstream method, and OnEmit returns nil.
C2_DropsBelowMinimum ==
    (NewGateCall("OnEmit") /\ last.arg.sev < last.min) =>
        /\ ~last.out.panic
        /\ last.out.calls = <<>>
        /\ last.out.ret = Nil

\* A record below the minimum was dropped in front of a caller-supplied
\* downstream.
C2_Witness ==
    /\ NewGateCall("OnEmit")
    /\ args.downstream \in {PlainProcessor, FilteringProcessor}
    /\ last.arg.sev < last.min
    /\ last.out.calls = <<>>
    /\ last.out.ret = Nil

\* C3: Enabled returns true iff the queried severity is at least the
\* minimum and, when the downstream has the filter capability, the
\* downstream's Enabled, called with the same context and parameters, returns
\* true; without the capability the result is the comparison alone.
C3_EnabledIffSeverityAndFilter ==
    NewGateCall("Enabled") =>
        /\ ~last.out.panic
        /\ ~ImplementsFilter(Downstream) =>
              /\ last.out.ret = (last.arg.sev >= last.min)
              /\ last.out.calls = <<>>
        /\ (ImplementsFilter(Downstream) /\ last.arg.sev >= last.min) =>
              last.out.calls =
                  <<DsCall(Downstream, "Enabled", last.ctx, last.arg, last.out.ret)>>
        /\ (ImplementsFilter(Downstream) /\ last.arg.sev < last.min) =>
              last.out.ret = FALSE

\* The severity check passed and the downstream filter refused.
C3_Witness ==
    /\ NewGateCall("Enabled")
    /\ args.downstream = FilteringProcessor
    /\ last.arg.sev >= last.min
    /\ Len(last.out.calls) = 1
    /\ last.out.calls[1].ret = FALSE
    /\ last.out.ret = FALSE

\* C4: for a queried severity below the minimum Enabled returns false and
\* the downstream filter is not called.
C4_EnabledBelowMinimumSkipsFilter ==
    (NewGateCall("Enabled") /\ last.arg.sev < last.min) =>
        /\ ~last.out.panic
        /\ last.out.ret = FALSE
        /\ last.out.calls = <<>>

\* A query below the minimum on a gate whose downstream has a filter.
C4_Witness ==
    /\ NewGateCall("Enabled")
    /\ args.downstream = FilteringProcessor
    /\ p.filter = FilteringProcessor
    /\ last.arg.sev < last.min
    /\ last.out.ret = FALSE

\* C5: every OnEmit and Enabled call on a gate that holds a SeverityVar
\* reads the variable once and decides by the value it holds at that call,
\* whatever earlier calls read.
C5_DecidesByCurrentValue ==
    [][ (p.sev = VarSev /\ (NewGateStep("OnEmit") \/ NewGateStep("Enabled"))) =>
          /\ last'.out.reads = <<varValue>>
          /\ last'.op = "OnEmit" =>
                (Forwarded(last') <=> last'.arg.sev >= varValue)
          /\ last'.op = "Enabled" =>
                /\ last'.arg.sev < varValue => ~last'.out.ret
                /\ (last'.arg.sev >= varValue /\ p.filter = Nil) => last'.out.ret
                /\ (last'.arg.sev >= varValue /\ p.filter # Nil) =>
                      Len(last'.out.calls) = 1
      ]_vars

\* A record severity dropped by one OnEmit call was forwarded by the next
\* call on the same gate.
C5_Witness ==
    /\ pc = "ready"
    /\ args.how = "new"
    /\ p.sev = VarSev
    /\ prev.op = "OnEmit"
    /\ ~prev.pass
    /\ last.op = "OnEmit"
    /\ last.arg.sev = prev.sev
    /\ Forwarded(last)

\* C6: a gate built with a nil downstream never panics and reaches only the
\* no-op processor; OnEmit, Shutdown and ForceFlush return nil and Enabled
\* returns false, whatever the minimum and the severity.
C6_NilDownstreamIsNoop ==
    (pc = "ready" /\ args.how = "new" /\ args.downstream = Nil) =>
        /\ p.Processor = defaultProcessor
        /\ ~last.out.panic
        /\ \A i \in 1..Len(last.out.calls) :
              last.out.calls[i].recv = defaultProcessor
        /\ last.op \in {"OnEmit", "Shutdown", "ForceFlush"} => last.out.ret = Nil
        /\ last.op = "Enabled" => last.out.ret = FALSE

\* Enabled was asked about a severity at or above the minimum.
C6_Witness ==
    /\ NewGateCall("Enabled")
    /\ args.downstream = Nil
    /\ last.arg.sev >= last.min
    /\ last.out.ret = FALSE

\* C7: a gate built by NewLogProcessor has a non-nil downstream and a
\* non-nil provider in every state; a nil provider is replaced by
\* SeverityInfo, so such a gate forwards a record iff its severity is at
\* least SeverityInfo.
C7_DefaultsFilledIn ==
    (pc = "ready" /\ args.how = "new") =>
        /\ p.Processor # Nil
        /\ p.sev # NilSev
        /\ args.severity = NilSev =>
              /\ p.sev = ConstSev(SeverityInfo)
              /\ last.op = "OnEmit" =>
                    (Forwarded(last) <=> last.arg.sev >= SeverityInfo)

\* A gate built from two nil arguments was given a record at SeverityInfo.
C7_Witness ==
    /\ NewGateCall("OnEmit")
    /\ args.downstream = Nil
    /\ args.severity = NilSev
    /\ last.arg.sev = SeverityInfo
    /\ Forwarded(last)

\* C8: on a LogProcessor built directly with a nil Processor every call
\* panics; on a gate built by NewLogProcessor none does.
C8_LiteralPanics ==
    (pc = "ready" /\ last.op # "none") =>
        /\ (args.how = "literal" /\ args.downstream = Nil) => last.out.panic
        /\ args.how = "new" => ~last.out.panic

\* Enabled panicked on a gate built directly.
C8_Witness ==
    /\ pc = "ready"
    /\ args.how = "literal"
    /\ args.downstream = Nil
    /\ last.op = "Enabled"
    /\ last.out.panic

\* C9: Shutdown and ForceFlush call the downstream's method of the same
\* name exactly once with the same context, return its result, do not read
\* the provider and leave the gate's fields as they were.
C9_PassThrough ==
    [][ (NewGateStep("Shutdown") \/ NewGateStep("ForceFlush")) =>
          /\ ~last'.out.panic
          /\ last'.out.calls =
                <<DsCall(Downstream, last'.op, last'.ctx, NoArg, last'.out.ret)>>
          /\ last'.out.reads = <<>>
          /\ p' = p
      ]_vars

\* ForceFlush returned the error of a caller-supplied downstream while the
\* minimum was above SeverityInfo.
C9_Witness ==
    /\ NewGateCall("ForceFlush")
    /\ args.downstream = PlainProcessor
    /\ last.min > SeverityInfo
    /\ Len(last.out.calls) = 1
    /\ last.out.calls[1].op = "ForceFlush"
    /\ last.out.ret = "errA"

\* C10: after Enabled returned true for a severity, an OnEmit of a record of
\* that severity under the same minimum is forwarded, and OnEmit never calls
\* the downstream's Enabled.
C10_EnabledImpliesForwarded ==
    [][ NewGateStep("OnEmit") =>
          /\ \A i \in 1..Len(last'.out.calls) : last'.out.calls[i].op = "OnEmit"
          /\ (/\ last.op = "Enabled"
              /\ last.out.ret
              /\ last'.arg.sev = last.arg.sev
              /\ last'.min = last.min) => Forwarded(last')
      ]_vars

\* Enabled returned true at the minimum and the next call forwarded a record
\* of that severity.
C10_Witness ==
    /\ NewGateCall("OnEmit")
    /\ args.downstream = FilteringProcessor
    /\ prev.op = "Enabled"
    /\ prev.pass
    /\ prev.sev = last.arg.sev
    /\ last.arg.sev = last.min
    /\ Forwarded(last)

====
